---- MODULE Spec2Model ----
(***************************************************************************)
(* The card-event notification service of src/main.go: the cart_events     *)
(* table, the HTTP ingestion handler, the pool of polling workers that     *)
(* claim batches of pending events and notify them, and the shutdown        *)
(* goroutine of main.                                                       *)
(*                                                                          *)
(* The store is PostgreSQL reached through a pgxpool connection pool.  A    *)
(* statement is modelled by what it does to the table; the pool by the      *)
(* number of connections in use.  Sleeps are steps that take no state.      *)
(***************************************************************************)
EXTENDS Integers, FiniteSets, Sequences, TLC

(***************************************************************************)
(* Bounds of the model.                                                     *)
(***************************************************************************)
\* Workers of the pool (main passes WorkerCount = 8).
NumWorkers == 2
\* Events the handler may insert: the size of the id space.
MaxEvents == 2
\* Largest backlog DrainSpec starts from.
MaxBacklog == 25
\* polls counts completed poll cycles up to this number and then stays.
MaxPolls == 4

(***************************************************************************)
(* Program constants.                                                       *)
(***************************************************************************)
\* LIMIT 10 of the claim query.
BatchSize == 10

VARIABLES
    status,        \* cart_events.status, by id, of the rows inserted so far
    createdAt,     \* cart_events.created_at, by id: the insertion sequence number
    pc,            \* where each worker goroutine is
    rows,          \* per worker: the rows of its open result set not yet read
    event,         \* per worker: the id of the event it is handling (0: none)
    ctxDone,       \* ctx of main is cancelled
    mainPc,        \* where the shutdown goroutine of main is
    numWorkers,    \* Pool.numWorkers
    maxConns,      \* connections the pgxpool may hold at once
    resp,          \* status code of the last HTTP response (0: none yet)
    claimed,       \* history: by id, how often a claim query returned the row (up to 2)
    notified,      \* history: by id, how often the notifier was invoked (up to 2)
    notifyFailed,  \* history: ids whose notification did not get through
    polls          \* history: completed calls of process, up to MaxPolls

tableVars == <<status, createdAt>>
workerVars == <<pc, rows, event>>
mainVars == <<ctxDone, mainPc>>
envVars == <<numWorkers, maxConns>>
histVars == <<claimed, notified, notifyFailed>>
vars == <<status, createdAt, pc, rows, event, ctxDone, mainPc, numWorkers,
          maxConns, resp, claimed, notified, notifyFailed, polls>>

Workers == 1..numWorkers
Ids == DOMAIN status

\* The n smallest elements of S (ORDER BY id LIMIT n).
FirstN(S, n) == {e \in S : Cardinality({f \in S : f < e}) < n}

\* f with the new key k mapped to v.
Extend(f, k, v) == [i \in (DOMAIN f) \cup {k} |-> IF i = k THEN v ELSE f[i]]

(***************************************************************************)
(* The connection pool.  Pool.Query holds its connection until the result   *)
(* set is closed, that is for the whole loop over the rows; Pool.Exec       *)
(* takes a connection for the statement and gives it back.  An Acquire      *)
(* waits while all maxConns connections are in use and fails at once on a   *)
(* cancelled ctx.                                                           *)
(*                                                                          *)
(* initDB sets config.MaxConns = 10 and then builds the pool from           *)
(* config.ConnString(), the string it parsed: the pool has pool_max_conns   *)
(* of DATABASE_URL or else pgxpool's default, the larger of 4 and the       *)
(* number of CPUs, which may be below, at or above WorkerCount = 8.         *)
(***************************************************************************)
HoldsConn(w) == pc[w] \in {"claim", "rows", "notify", "exec"}

ConnsInUse == Cardinality({w \in Workers : HoldsConn(w)})

CanAcquire == ConnsInUse < maxConns

(***************************************************************************)
(* The claim query, lines 116-129.                                          *)
(***************************************************************************)
\* Rows locked by a claim statement that has not committed yet.
Locked == UNION {rows[w] : w \in {v \in Workers : pc[v] = "claim"}}

\* Selectable gone wrong: the cte without FOR UPDATE SKIP LOCKED.
SelectableUnlocked(e) == status[e] = "pending"

\* Selectable gone wrong: the cte without WHERE status = 'pending'.
SelectableAnyStatus(e) == e \notin Locked

\* WHERE status = 'pending' ... FOR UPDATE SKIP LOCKED
Selectable(e) == status[e] = "pending" /\ e \notin Locked

\* Cte gone wrong: no LIMIT 10.
CteUnlimited == {e \in Ids : Selectable(e)}

\* The cte: ORDER BY id LIMIT 10 over the selectable rows.
Cte == FirstN({e \in Ids : Selectable(e)}, BatchSize)

\* ClaimUpdate gone wrong: the UPDATE without its WHERE.
ClaimUpdateEveryRow(S) == [e \in Ids |-> "processing"]

\* ClaimUpdate gone wrong: the rows are returned, their status is left as it is.
ClaimUpdateNoRow(S) == status

\* UPDATE cart_events SET status = 'processing' WHERE id IN (SELECT id FROM cte)
ClaimUpdate(S) == [e \in Ids |-> IF e \in S THEN "processing" ELSE status[e]]

\* Finalize gone wrong: the UPDATE without WHERE id = $1.
FinalizeEveryRow(e) == [i \in Ids |-> "processed"]

\* UPDATE cart_events SET status = 'processed' WHERE id = $1, line 243.
Finalize(e) == [status EXCEPT ![e] = "processed"]

\* The rows of S have been returned by a claim query once more.
Returned(S) == [e \in Ids |-> IF e \in S /\ claimed[e] < 2 THEN claimed[e] + 1
                                ELSE claimed[e]]

\* A call of process has returned.
Polled == IF polls < MaxPolls THEN polls + 1 ELSE polls

(***************************************************************************)
(* Pool.workerEvents, lines 101-111.                                        *)
(***************************************************************************)
\* WorkerExit gone wrong: the worker returns only when no event is pending.
WorkerExitWhenDrained(w) ==
    /\ pc[w] = "loop"
    /\ ctxDone
    /\ \A e \in Ids : status[e] # "pending"
    /\ pc' = [pc EXCEPT ![w] = "done"]
    /\ UNCHANGED <<tableVars, rows, event, mainVars, envVars, resp, histVars, polls>>

\* case <-ctx.Done(): return, and the deferred p.wg.Done().
WorkerExit(w) ==
    /\ pc[w] = "loop"
    /\ ctxDone
    /\ pc' = [pc EXCEPT ![w] = "done"]
    /\ UNCHANGED <<tableVars, rows, event, mainVars, envVars, resp, histVars, polls>>

\* default: p.process(ctx), which starts with time.Sleep(Interval).
WorkerPoll(w) ==
    /\ pc[w] = "loop"
    /\ ~ctxDone
    /\ pc' = [pc EXCEPT ![w] = "sleep"]
    /\ UNCHANGED <<tableVars, rows, event, mainVars, envVars, resp, histVars, polls>>

(***************************************************************************)
(* Pool.process, lines 113-157.                                             *)
(***************************************************************************)
\* p.db.Query with a cancelled ctx: no connection is taken, the error is
\* logged and process returns.
QueryCancelled(w) ==
    /\ pc[w] = "sleep"
    /\ ctxDone
    /\ pc' = [pc EXCEPT ![w] = "loop"]
    /\ polls' = Polled
    /\ UNCHANGED <<tableVars, rows, event, mainVars, envVars, resp, histVars>>

\* QueryLock gone wrong: p.db.Query(context.Background(), ...), as the handler has it.
QueryLockNoCtx(w) ==
    /\ pc[w] = "sleep"
    /\ CanAcquire
    /\ rows' = [rows EXCEPT ![w] = Cte]
    /\ pc' = [pc EXCEPT ![w] = "claim"]
    /\ UNCHANGED <<tableVars, event, mainVars, envVars, resp, histVars, polls>>

\* p.db.Query takes a connection and the statement selects and locks its rows.
QueryLock(w) ==
    /\ pc[w] = "sleep"
    /\ ~ctxDone
    /\ CanAcquire
    /\ rows' = [rows EXCEPT ![w] = Cte]
    /\ pc' = [pc EXCEPT ![w] = "claim"]
    /\ UNCHANGED <<tableVars, event, mainVars, envVars, resp, histVars, polls>>

\* p.db.Query fails in the store: err != nil, logged, process returns.
QueryError(w) ==
    /\ pc[w] = "sleep"
    /\ pc' = [pc EXCEPT ![w] = "loop"]
    /\ polls' = Polled
    /\ UNCHANGED <<tableVars, rows, event, mainVars, envVars, resp, histVars>>

\* The statement updates the rows of the cte, commits (the locks go) and
\* returns the rows.
ClaimCommit(w) ==
    /\ pc[w] = "claim"
    /\ status' = ClaimUpdate(rows[w])
    /\ claimed' = Returned(rows[w])
    /\ pc' = [pc EXCEPT ![w] = "rows"]
    /\ UNCHANGED <<createdAt, rows, event, mainVars, envVars, resp, notified,
                   notifyFailed, polls>>

\* ctx is cancelled while the statement is in flight and the statement is
\* rolled back: Query returns the error.
ClaimAbort(w) ==
    /\ pc[w] = "claim"
    /\ ctxDone
    /\ rows' = [rows EXCEPT ![w] = {}]
    /\ pc' = [pc EXCEPT ![w] = "loop"]
    /\ polls' = Polled
    /\ UNCHANGED <<tableVars, event, mainVars, envVars, resp, histVars>>

\* The rows rows.Next() may give next.  The ORDER BY is in the cte; the
\* UPDATE ... RETURNING that produces the result set has none, so the rows
\* come in any order.
NextRows(w) == rows[w]

\* rows.Next() is true and rows.Scan succeeds: sendNotification is called.
RowsNext(w) ==
    /\ pc[w] = "rows"
    /\ \E e \in NextRows(w) :
          /\ event' = [event EXCEPT ![w] = e]
          /\ rows' = [rows EXCEPT ![w] = rows[w] \ {e}]
    /\ pc' = [pc EXCEPT ![w] = "notify"]
    /\ UNCHANGED <<tableVars, mainVars, envVars, resp, histVars, polls>>

\* rows.Scan fails: pgx marks the result set failed and closes it, so the
\* rows not yet read are gone with the one that failed.  The error is logged,
\* and after the continue rows.Next() is false.
RowsScanError(w) ==
    /\ pc[w] = "rows"
    /\ rows[w] # {}
    /\ rows' = [rows EXCEPT ![w] = {}]
    /\ UNCHANGED <<tableVars, pc, event, mainVars, envVars, resp, histVars, polls>>

\* rows.Next() is false after the last row: the deferred rows.Close() gives
\* the connection back and process returns.
RowsEnd(w) ==
    /\ pc[w] = "rows"
    /\ rows[w] = {}
    /\ pc' = [pc EXCEPT ![w] = "loop"]
    /\ polls' = Polled
    /\ UNCHANGED <<tableVars, rows, event, mainVars, envVars, resp, histVars>>

\* ctx is cancelled while the result set is open and the read of the next row
\* fails: rows.Next() is false with rows left unread.
RowsCancelled(w) ==
    /\ pc[w] = "rows"
    /\ rows[w] # {}
    /\ ctxDone
    /\ rows' = [rows EXCEPT ![w] = {}]
    /\ pc' = [pc EXCEPT ![w] = "loop"]
    /\ polls' = Polled
    /\ UNCHANGED <<tableVars, event, mainVars, envVars, resp, histVars>>

(***************************************************************************)
(* sendNotification, lines 238-247.                                         *)
(***************************************************************************)
Counted(e) == [notified EXCEPT ![e] = IF @ < 2 THEN @ + 1 ELSE @]

\* time.Sleep and log.Printf: the notification is delivered.
NotifyOk(w) ==
    /\ pc[w] = "notify"
    /\ notified' = Counted(event[w])
    /\ pc' = [pc EXCEPT ![w] = "exec"]
    /\ UNCHANGED <<tableVars, rows, event, mainVars, envVars, resp, claimed,
                   notifyFailed, polls>>

\* The notification does not get through.  log.Printf returns nothing, so
\* sendNotification goes on as after a delivery.
NotifyFail(w) ==
    /\ pc[w] = "notify"
    /\ notified' = Counted(event[w])
    /\ notifyFailed' = notifyFailed \cup {event[w]}
    /\ pc' = [pc EXCEPT ![w] = "exec"]
    /\ UNCHANGED <<tableVars, rows, event, mainVars, envVars, resp, claimed, polls>>

\* db.Exec takes a second connection, updates the row and gives it back.
ExecOk(w) ==
    /\ pc[w] = "exec"
    /\ ~ctxDone
    /\ CanAcquire
    /\ status' = Finalize(event[w])
    /\ event' = [event EXCEPT ![w] = 0]
    /\ pc' = [pc EXCEPT ![w] = "rows"]
    /\ UNCHANGED <<createdAt, rows, mainVars, envVars, resp, histVars, polls>>

\* db.Exec with a cancelled ctx: the error is logged, the row is not updated.
ExecCancelled(w) ==
    /\ pc[w] = "exec"
    /\ ctxDone
    /\ event' = [event EXCEPT ![w] = 0]
    /\ pc' = [pc EXCEPT ![w] = "rows"]
    /\ UNCHANGED <<tableVars, rows, mainVars, envVars, resp, histVars, polls>>

\* ExecError gone wrong: after a failed update the event is put back to pending.
ExecErrorRequeue(w) ==
    /\ pc[w] = "exec"
    /\ status' = [status EXCEPT ![event[w]] = "pending"]
    /\ event' = [event EXCEPT ![w] = 0]
    /\ pc' = [pc EXCEPT ![w] = "rows"]
    /\ UNCHANGED <<createdAt, rows, mainVars, envVars, resp, histVars, polls>>

\* db.Exec fails in the store: the error is logged, the row is not updated.
ExecError(w) ==
    /\ pc[w] = "exec"
    /\ event' = [event EXCEPT ![w] = 0]
    /\ pc' = [pc EXCEPT ![w] = "rows"]
    /\ UNCHANGED <<tableVars, rows, mainVars, envVars, resp, histVars, polls>>

(***************************************************************************)
(* The shutdown goroutine of main, lines 212-230.                           *)
(***************************************************************************)
\* WgZero gone wrong: wg.Add(1) for the whole pool, Wait returns at the first Done.
WgZeroAtFirstDone == \E w \in Workers : pc[w] = "done"

\* wg.Wait() returns when every worker has called wg.Done().
WgZero == \A w \in Workers : pc[w] = "done"

\* The server accepts requests until server.Shutdown.
Listening == mainPc \in {"serving", "waiting", "drained"}

\* <-sig, then cancel().
Signal ==
    /\ mainPc = "serving"
    /\ ctxDone' = TRUE
    /\ mainPc' = "waiting"
    /\ UNCHANGED <<tableVars, workerVars, envVars, resp, histVars, polls>>

\* WgWait gone wrong: the goroutine goes on without pool.wg.Wait().
WgWaitSkipped ==
    /\ mainPc = "waiting"
    /\ mainPc' = "drained"
    /\ UNCHANGED <<tableVars, workerVars, ctxDone, envVars, resp, histVars, polls>>

\* pool.wg.Wait() returns.
WgWait ==
    /\ mainPc = "waiting"
    /\ WgZero
    /\ mainPc' = "drained"
    /\ UNCHANGED <<tableVars, workerVars, ctxDone, envVars, resp, histVars, polls>>

\* server.Shutdown(ctx1).
ServerShutdown ==
    /\ mainPc = "drained"
    /\ mainPc' = "httpStopped"
    /\ UNCHANGED <<tableVars, workerVars, ctxDone, envVars, resp, histVars, polls>>

\* db.Close().
DbClose ==
    /\ mainPc = "httpStopped"
    /\ mainPc' = "closed"
    /\ UNCHANGED <<tableVars, workerVars, ctxDone, envVars, resp, histVars, polls>>

\* server.Shutdown makes ListenAndServe return http.ErrServerClosed in main,
\* and log.Fatal ends the process, before or after the db.Close() of the
\* shutdown goroutine.
MainFatal ==
    /\ mainPc \in {"httpStopped", "closed"}
    /\ mainPc' = "exited"
    /\ UNCHANGED <<tableVars, workerVars, ctxDone, envVars, resp, histVars, polls>>

(***************************************************************************)
(* Handler.Event, lines 163-191.                                            *)
(***************************************************************************)
\* uuid_generate_v4(): any id not in the table.
FreshIds == (1..MaxEvents) \ Ids

\* r.Method != "POST": 400.
EventBadMethod ==
    /\ Listening
    /\ resp' = 400
    /\ UNCHANGED <<tableVars, workerVars, mainVars, envVars, histVars, polls>>

\* EventBadBody gone wrong: no return after the 400, the zero event is inserted.
EventBadBodyNoReturn ==
    /\ Listening
    /\ CanAcquire
    /\ \E id \in FreshIds :
          /\ status' = Extend(status, id, "pending")
          /\ createdAt' = Extend(createdAt, id, Cardinality(Ids) + 1)
          /\ claimed' = Extend(claimed, id, 0)
          /\ notified' = Extend(notified, id, 0)
    /\ resp' = 400
    /\ UNCHANGED <<workerVars, mainVars, envVars, notifyFailed, polls>>

\* The body does not decode: 400.
EventBadBody ==
    /\ Listening
    /\ resp' = 400
    /\ UNCHANGED <<tableVars, workerVars, mainVars, envVars, histVars, polls>>

\* The INSERT fails in the store: 500.
EventStoreError ==
    /\ Listening
    /\ resp' = 500
    /\ UNCHANGED <<tableVars, workerVars, mainVars, envVars, histVars, polls>>

\* The INSERT adds a row with the defaults status 'pending' and
\* created_at CURRENT_TIMESTAMP: 200.
EventStored ==
    /\ Listening
    /\ CanAcquire
    /\ \E id \in FreshIds :
          /\ status' = Extend(status, id, "pending")
          /\ createdAt' = Extend(createdAt, id, Cardinality(Ids) + 1)
          /\ claimed' = Extend(claimed, id, 0)
          /\ notified' = Extend(notified, id, 0)
    /\ resp' = 200
    /\ UNCHANGED <<workerVars, mainVars, envVars, notifyFailed, polls>>

(***************************************************************************)
(* Specifications.                                                          *)
(***************************************************************************)
\* main up to the start of the server: n rows already in the table, inserted
\* in the order at, a pool of k workers, c connections.
StartedWith(n, k, c, at) ==
    /\ status = [i \in 1..n |-> "pending"]
    /\ createdAt = at
    /\ claimed = [i \in 1..n |-> 0]
    /\ notified = [i \in 1..n |-> 0]
    /\ notifyFailed = {}
    /\ numWorkers = k
    /\ maxConns = c
    /\ pc = [w \in 1..k |-> "loop"]
    /\ rows = [w \in 1..k |-> {}]
    /\ event = [w \in 1..k |-> 0]
    /\ ctxDone = FALSE
    /\ mainPc = "serving"
    /\ resp = 0

\* The n rows were inserted in the order of their ids.
Started(n, k, c) == StartedWith(n, k, c, [i \in 1..n |-> i])

\* The steps of a worker when nothing fails.
WorkerStep(w) ==
    \/ WorkerExit(w)
    \/ WorkerPoll(w)
    \/ QueryCancelled(w)
    \/ QueryLock(w)
    \/ ClaimCommit(w)
    \/ ClaimAbort(w)
    \/ RowsNext(w)
    \/ RowsEnd(w)
    \/ RowsCancelled(w)
    \/ NotifyOk(w)
    \/ ExecOk(w)
    \/ ExecCancelled(w)

\* The failures of the store and of the notifier.
WorkerFault(w) ==
    \/ QueryError(w)
    \/ RowsScanError(w)
    \/ NotifyFail(w)
    \/ ExecError(w)

\* The process is killed: its goroutines are gone, the statements in flight
\* are rolled back.
Crash ==
    /\ mainPc \notin {"closed", "exited", "killed"}
    /\ mainPc' = "killed"
    /\ ctxDone' = TRUE
    /\ pc' = [w \in Workers |-> "done"]
    /\ rows' = [w \in Workers |-> {}]
    /\ event' = [w \in Workers |-> 0]
    /\ UNCHANGED <<tableVars, envVars, resp, histVars, polls>>

\* main is run again on the same table: a new ctx, a new pool, a new server.
Restart ==
    /\ mainPc \in {"closed", "exited", "killed"}
    /\ mainPc' = "serving"
    /\ ctxDone' = FALSE
    /\ pc' = [w \in Workers |-> "loop"]
    /\ rows' = [w \in Workers |-> {}]
    /\ event' = [w \in Workers |-> 0]
    /\ UNCHANGED <<tableVars, envVars, resp, histVars, polls>>

\* An empty table.  The pool has as many connections as workers, or two for
\* each worker, which is never short.  polls is not observed here and starts
\* at its cap.
Init ==
    /\ \E c \in {NumWorkers, 2 * NumWorkers} : Started(0, NumWorkers, c)
    /\ polls = MaxPolls

NextNormal ==
    \/ \E w \in Workers : WorkerExit(w)
    \/ \E w \in Workers : WorkerPoll(w)
    \/ \E w \in Workers : QueryCancelled(w)
    \/ \E w \in Workers : QueryLock(w)
    \/ \E w \in Workers : ClaimCommit(w)
    \/ \E w \in Workers : ClaimAbort(w)
    \/ \E w \in Workers : RowsNext(w)
    \/ \E w \in Workers : RowsEnd(w)
    \/ \E w \in Workers : RowsCancelled(w)
    \/ \E w \in Workers : NotifyOk(w)
    \/ \E w \in Workers : ExecOk(w)
    \/ \E w \in Workers : ExecCancelled(w)
    \/ Signal
    \/ WgWait
    \/ ServerShutdown
    \/ DbClose
    \/ MainFatal
    \/ EventStored

Next ==
    \/ NextNormal
    \/ \E w \in Workers : QueryError(w)
    \/ \E w \in Workers : RowsScanError(w)
    \/ \E w \in Workers : NotifyFail(w)
    \/ \E w \in Workers : ExecError(w)

\* Every run of the service, failures of the store and of the notifier
\* included.  The requests the handler refuses change nothing but resp and
\* are left to HttpSpec.
Spec == Init /\ [][Next]_vars

\* One worker, a pool with a connection to spare.
HttpInit ==
    /\ Started(0, 1, 2)
    /\ polls = MaxPolls

NextHttp ==
    \/ Next
    \/ EventBadMethod
    \/ EventBadBody
    \/ EventStoreError

\* The handler with all its outcomes, beside a worker.
HttpSpec == HttpInit /\ [][NextHttp]_vars

\* A goroutine that can take a step takes one: the Go scheduler runs every
\* runnable goroutine.  A goroutine waiting for a connection gets one when
\* connections keep coming back: the pool serves its waiters in turn.  The
\* signal and the requests need not come.
Fairness ==
    /\ \A w \in 1..NumWorkers : WF_vars(WorkerStep(w))
    /\ \A w \in 1..NumWorkers : SF_vars(QueryLock(w)) /\ SF_vars(ExecOk(w))
    /\ WF_vars(WgWait)
    /\ WF_vars(ServerShutdown)
    /\ WF_vars(DbClose)
    /\ WF_vars(MainFatal)

\* The runs in which nothing fails, under fair scheduling.
FairSpec == Init /\ [][NextNormal]_vars /\ Fairness

\* The part of Fairness that does not speak of the waits for a connection.
WeakFairness ==
    /\ \A w \in 1..NumWorkers : WF_vars(WorkerStep(w))
    /\ WF_vars(WgWait)

\* The runs in which nothing fails and every goroutine that can take a step
\* takes one.
WeakFairSpec == Init /\ [][NextNormal]_vars /\ WeakFairness

\* One worker and a backlog of up to MaxBacklog pending events, no request,
\* no signal, no failure; the poll cycles are counted.
DrainInit ==
    /\ \E n \in 0..MaxBacklog : Started(n, 1, 2)
    /\ polls = 0

NextDrain ==
    \/ \E w \in Workers : WorkerPoll(w)
    \/ \E w \in Workers : QueryLock(w)
    \/ \E w \in Workers : ClaimCommit(w)
    \/ \E w \in Workers : RowsNext(w)
    \/ \E w \in Workers : RowsEnd(w)
    \/ \E w \in Workers : NotifyOk(w)
    \/ \E w \in Workers : ExecOk(w)

DrainSpec == DrainInit /\ [][NextDrain]_vars

\* As DrainInit, with the rows inserted in the order of their ids or in the
\* opposite order: an id is a random uuid and says nothing of the time of
\* the insert.
AgeInit ==
    /\ \E n \in 0..MaxBacklog :
          \E at \in {[i \in 1..n |-> i], [i \in 1..n |-> n + 1 - i]} :
              StartedWith(n, 1, 2, at)
    /\ polls = 0

AgeSpec == AgeInit /\ [][NextDrain]_vars

\* The pool is never short of connections.
RetryInit ==
    /\ Started(0, NumWorkers, 2 * NumWorkers)
    /\ polls = MaxPolls

NextRetry ==
    \/ NextNormal
    \/ Crash
    \/ Restart

\* The runs in which nothing fails but the process, which may be killed and
\* is started again when it has ended.
RetrySpec == RetryInit /\ [][NextRetry]_vars /\ Fairness /\ WF_vars(Restart)

(***************************************************************************)
(* The claims.                                                              *)
(***************************************************************************)
\* The events a worker has in hand: locked or returned and not yet read,
\* or being notified and finalized.
Held(w) == rows[w] \cup ({event[w]} \ {0})

Is(e, s) == e \in Ids /\ status[e] = s

Processed == {e \in Ids : status[e] = "processed"}

Idle(w) == pc[w] \in {"loop", "sleep"}

\* C1: no event is returned by the claim query more than once, and at no
\* instant do two workers have the same event in hand, with requests
\* inserting events all the while.
C1_NoDoubleClaim ==
    /\ \A e \in Ids : claimed[e] <= 1
    /\ \A v, w \in Workers : v # w => Held(v) \cap Held(w) = {}

\* Two workers are notifying the events they claimed, each its own.
C1_Witness ==
    \E v, w \in Workers :
        /\ v # w
        /\ pc[v] = "notify" /\ pc[w] = "notify"
        /\ event[v] # event[w]
        /\ claimed[event[v]] = 1 /\ claimed[event[w]] = 1

\* C3: once pool.wg.Wait() has returned every worker has returned from
\* workerEvents: none is in a claim, a notification or an update, then or later.
C3_ShutdownSafety ==
    mainPc \in {"drained", "httpStopped", "closed"} =>
        \A w \in Workers : pc[w] = "done" /\ Held(w) = {}

\* wg.Wait() has returned after the workers notified an event.
C3_Witness ==
    /\ mainPc = "drained"
    /\ \E e \in Ids : notified[e] > 0

\* C6: a status changes only from pending to processing, by a claim that
\* returns the row, and from processing to processed, by the update of the
\* worker that is handling the event; rows stay and new rows are pending.
C6_StatusMonotonic ==
    [][/\ Ids \subseteq DOMAIN status'
       /\ \A e \in (DOMAIN status') \ Ids : status'[e] = "pending"
       /\ \A e \in Ids :
             \/ status'[e] = status[e]
             \/ /\ status[e] = "pending"
                /\ status'[e] = "processing"
                /\ claimed'[e] = claimed[e] + 1
             \/ /\ status[e] = "processing"
                /\ status'[e] = "processed"
                /\ \E w \in Workers : pc[w] = "exec" /\ event[w] = e]_vars

\* An event has gone through both changes while another is processing.
C6_Witness ==
    /\ \E e \in Ids : status[e] = "processed"
    /\ \E e \in Ids : status[e] = "processing"

\* The backlog is drained: no event is pending and every worker is between
\* two batches.
Drained ==
    /\ \A e \in Ids : status[e] # "pending"
    /\ \A w \in Workers : Idle(w)

\* C7: without failure and cancellation, once the workers have drained the
\* backlog every inserted event has been notified exactly once and is
\* processed; and no event is ever notified twice.
C7_ExactlyOnce ==
    ~ctxDone =>
        /\ \A e \in Ids : notified[e] <= 1
        /\ Drained => \A e \in Ids : notified[e] = 1 /\ status[e] = "processed"

\* Both workers took part: MaxEvents events are in the table, all notified
\* and processed, and the workers are polling an empty backlog.
C7_Witness ==
    /\ ~ctxDone
    /\ Drained
    /\ Cardinality(Ids) = MaxEvents
    /\ \A e \in Ids : notified[e] = 1
    /\ \E w \in Workers : pc[w] = "sleep"

Least(a, b) == IF a < b THEN a ELSE b

\* C10: one worker, no request, no failure.  A claim takes min(BatchSize,
\* pending) events, so after k completed poll cycles min(N, k * BatchSize)
\* of the N events are processed: all of them after ceil(N / BatchSize)
\* cycles and not before.
C10_BatchDrain ==
    /\ pc[1] = "claim" =>
          Cardinality(rows[1]) =
              Least(BatchSize, Cardinality({e \in Ids : status[e] = "pending"}))
    /\ (Idle(1) /\ polls < MaxPolls) =>
          Cardinality(Processed) = Least(Cardinality(Ids), polls * BatchSize)
    /\ (Idle(1) /\ polls = MaxPolls) =>
          Cardinality(Processed) >= Least(Cardinality(Ids), polls * BatchSize)

\* 25 events are all processed when the third poll cycle has completed.
C10_Witness ==
    /\ Cardinality(Ids) = 25
    /\ polls = 3
    /\ Idle(1)
    /\ Cardinality(Processed) = 25

\* C2: while the pool is not cancelled, every pending event is processed in
\* the end, when nothing fails and the goroutines are scheduled fairly.
C2_EventualDrain ==
    \A e \in 1..MaxEvents : Is(e, "pending") ~> (ctxDone \/ Is(e, "processed"))

\* C4: when nothing fails, every event claimed by a worker has been notified
\* and is processed once the workers have exited, so that none is left
\* processing when pool.wg.Wait() has returned.
C4_ShutdownFinishesBatch ==
    (\A w \in Workers : pc[w] = "done") =>
        \A e \in Ids : claimed[e] > 0 => notified[e] > 0 /\ status[e] = "processed"

\* C5: the server stops accepting requests before the pool is drained: no
\* event is inserted once the workers have exited.
C5_LifecycleOrder ==
    [][(\A w \in Workers : pc[w] = "done") => DOMAIN status' = DOMAIN status]_vars

\* C8: every inserted event is notified at least once in the end, whatever
\* kills or cancels the worker that claimed it, provided the process is
\* started again and in the end is left running.
C8_AtLeastOnce ==
    <>[](mainPc = "serving") =>
        \A e \in 1..MaxEvents : (e \in Ids) ~> (e \in Ids /\ notified[e] > 0)

\* C9: an event whose notification failed is never processed.
C9_NotifierFailure == \A e \in notifyFailed : status[e] # "processed"

\* C11: a failed claim query, a row that does not decode and a failed status
\* update never end a worker, which leaves its loop on cancellation only; a
\* failed claim query changes no event; and a failure on one row costs that
\* row only: a worker that goes on in its row loop has dropped at most the
\* one row from its batch.
C11_FailureIsolation ==
    [][\A w \in Workers :
          /\ (pc[w] # "done" /\ pc'[w] = "done") => ctxDone
          /\ (pc[w] = "sleep" /\ pc'[w] = "loop") => status' = status
          /\ (pc[w] \in {"rows", "exec"} /\ pc'[w] = "rows") =>
                Cardinality(rows[w] \ rows'[w]) <= 1]_vars

\* C12: the events of one batch are notified and finalized one after the
\* other in ascending order of id: the row a worker reads next has the least
\* id of the rows of its batch it has not read yet.
C12_AscendingWithinBatch ==
    [][\A w \in Workers :
          (pc[w] = "rows" /\ pc'[w] = "notify") =>
              \A f \in rows'[w] : event'[w] < f]_vars

\* C13: a request answered 400 or 500 leaves the table as it is; a request
\* answered 200 has added exactly one row, with status pending, and changed
\* no row that was there; and no row is added but by a request answered 200.
C13_IngestionOutcomes ==
    [][/\ (resp' \in {400, 500} /\ resp' # resp) =>
             (status' = status /\ createdAt' = createdAt)
       /\ ((resp' = 200 /\ resp # 200) \/ DOMAIN status' # DOMAIN status) =>
             /\ resp' = 200
             /\ \E id \in (DOMAIN status') \ Ids :
                   /\ DOMAIN status' = Ids \cup {id}
                   /\ status'[id] = "pending"
             /\ \A e \in Ids :
                   status'[e] = status[e] /\ createdAt'[e] = createdAt[e]]_vars

\* A request was answered 200 and a later one 500, with the stored event in
\* the hands of the worker.
C13_Witness ==
    /\ resp = 500
    /\ Cardinality(Ids) = 1
    /\ \E e \in Ids : status[e] = "processing"

\* C14: once ctx is cancelled no worker issues a claim: the worker that was
\* in its polling wait at the cancel finds ctx cancelled in p.db.Query and no
\* statement is sent.  An event that still moves from pending to processing
\* then is a row of a statement that was in flight at the cancel.
C14_NoClaimAfterCancel ==
    [][ctxDone =>
          /\ \A w \in Workers : ~(pc[w] = "sleep" /\ pc'[w] = "claim")
          /\ \A e \in Ids :
                (status[e] = "pending" /\ status'[e] = "processing") =>
                    \E w \in Workers : pc[w] = "claim" /\ e \in rows[w]]_vars

\* ctx is cancelled while a worker is in its polling wait, with an event
\* pending and a connection free: the claim would take the event.
C14_Witness ==
    /\ ctxDone
    /\ CanAcquire
    /\ \E w \in Workers : pc[w] = "sleep"
    /\ \E e \in Ids : status[e] = "pending"

\* C15: the claim takes the pending events oldest first: the statement never
\* selects an event while one inserted before it is pending, not locked by
\* another statement, and left out.
C15_OldestFirst ==
    [][\A w \in Workers :
          (pc[w] = "sleep" /\ pc'[w] = "claim") =>
              \A e \in rows'[w] : \A f \in Ids \ rows'[w] :
                  Selectable(f) => createdAt[f] > createdAt[e]]_vars

\* C16: when nothing fails and every call returns, once ctx is cancelled
\* every worker exits and pool.wg.Wait() returns, whatever is pending.
C16_ShutdownTerminates ==
    (ctxDone /\ mainPc = "waiting") ~> (WgZero /\ mainPc = "drained")

\* pool.wg.Wait() has returned with an event still pending and another
\* claimed by a worker before the cancel.
C16_Witness ==
    /\ mainPc = "drained"
    /\ WgZero
    /\ \E e \in Ids : status[e] = "pending"
    /\ \E e \in Ids : claimed[e] > 0

\* C17: a claim returns at most BatchSize events, each pending just before
\* the claim and processing just after it, and none returned by an earlier
\* claim: with no insert in between, a claim and the next are disjoint and
\* the second returns no more than the first left pending.
C17_ReclaimDisjoint ==
    [][\A w \in Workers :
          /\ (pc[w] = "sleep" /\ pc'[w] = "claim") =>
                /\ Cardinality(rows'[w]) <= BatchSize
                /\ Cardinality(rows'[w]) <=
                       Cardinality({e \in Ids : status[e] = "pending"})
                /\ \A e \in rows'[w] : status[e] = "pending" /\ claimed[e] = 0
          /\ (pc[w] = "claim" /\ pc'[w] = "rows") =>
                \A e \in rows[w] :
                    /\ status[e] = "pending"
                    /\ status'[e] = "processing"
                    /\ claimed'[e] = 1]_vars

\* Of 25 events the first two claims returned 10 each, now processed, and
\* the third has returned the 5 that were left.
C17_Witness ==
    /\ Cardinality(Ids) = 25
    /\ polls = 2
    /\ pc[1] = "rows"
    /\ Cardinality(rows[1]) = 5
    /\ Cardinality(Processed) = 20
    /\ \A e \in rows[1] : status[e] = "processing" /\ claimed[e] = 1

\* C18: an event is set to processed by the worker that claimed it, after
\* that worker has called the notifier for it.  Rows come into a worker's
\* result set by its own claim only, the event a worker handles is a row of
\* its own result set, and an event turns processed only in the update of
\* the worker that handles it and has notified it; so no event is processed
\* that was not notified.
C18_FinalizedByClaimant ==
    [][/\ \A w \in Workers :
             /\ rows'[w] \subseteq rows[w] \/ (pc[w] = "sleep" /\ pc'[w] = "claim")
             /\ event'[w] \in {event[w], 0} \/
                    (pc[w] = "rows" /\ pc'[w] = "notify" /\ event'[w] \in rows[w])
             /\ pc'[w] = "exec" =>
                    (pc[w] \in {"notify", "exec"} /\ event'[w] = event[w]
                         /\ notified'[event[w]] > 0)
       /\ \A e \in Ids :
             /\ (status[e] # "processed" /\ status'[e] = "processed") =>
                    \E w \in Workers :
                        pc[w] = "exec" /\ event[w] = e /\ claimed[e] = 1
             /\ status'[e] = "processed" => notified'[e] > 0]_vars

\* A worker is about to finalize the event it claimed and notified, and
\* another event is processed already.
C18_Witness ==
    \E w \in Workers :
        /\ pc[w] = "exec"
        /\ status[event[w]] = "processing"
        /\ notified[event[w]] = 1
        /\ \E e \in Ids : e # event[w] /\ status[e] = "processed" /\ notified[e] = 1

\* C19: db.Close() runs only when every worker has returned from
\* workerEvents: the store is never closed with a worker in its loop, in a
\* claim or in an update, and no worker starts again afterwards.
C19_StoreOutlivesWorkers ==
    [][mainPc' = "closed" =>
          \A w \in Workers : pc[w] = "done" /\ pc'[w] = "done"]_vars

\* The store is closed after the workers claimed and notified an event and
\* a worker left one unclaimed.
C19_Witness ==
    /\ mainPc = "closed"
    /\ \E e \in Ids : notified[e] > 0
    /\ \E e \in Ids : status[e] = "pending"

\* C20: in every run, with cancellation, failed updates and lost rows, no
\* event goes back to pending, so none is returned by a second claim and none
\* is notified twice, and only claimed events are notified; an event that is
\* processing and in no worker's hands stays so for ever.
C20_AtMostOnce ==
    [][\A e \in Ids :
          /\ status[e] # "pending" => status'[e] # "pending"
          /\ claimed'[e] <= 1
          /\ notified'[e] <= claimed'[e]
          /\ (status[e] = "processing" /\ \A w \in Workers : e \notin Held(w)) =>
                /\ status'[e] = "processing"
                /\ \A w \in Workers : e \notin rows'[w] /\ event'[w] # e]_vars

\* A notified event was left processing by a failed update, and a worker
\* not stopped by a cancel is about to claim again.
C20_Witness ==
    /\ ~ctxDone
    /\ \E e \in Ids :
          /\ status[e] = "processing"
          /\ notified[e] = 1
          /\ \A w \in Workers : e \notin Held(w)
    /\ \E w \in Workers : pc[w] = "sleep"

====
